---------------------------- MODULE Spec2Model ----------------------------
(***************************************************************************)
(* Model of the styled-jsx language server:                                *)
(*   - the extraction core (candidate-offset scanner, AST template         *)
(*     locator, character-preserving masker) of styled-jsx-utils.ts, and   *)
(*   - the debounced validation / settings / diagnostics machinery and the *)
(*     feature dispatchers of styled-jsx-server-main.ts.                   *)
(*                                                                         *)
(* Texts are sequences of characters, each a string.  Offsets are 0-based  *)
(* as in the source: the character at offset p of text t is t[p + 1].      *)
(***************************************************************************)
EXTENDS Integers, Sequences, FiniteSets, TLC

(***************************************************************************)
(* Bounds of the model.                                                    *)
(***************************************************************************)
\* Size budget of a generated source document (see DocsOfCost).
MaxSize == 4
\* How many getStyledJsx calls a behaviour makes on the document, and elsewhere.
MaxCalls == 2
\* The budget of the documents the feature requests are about.
MaxDispatchSize == 3
\* How many document objects TextDocuments creates (didOpen events).
MaxOpens == 2
\* How many timers setTimeout hands out (content changes, revalidations).
MaxTimers == 3
\* How many configuration requests are sent.
MaxPromises == 2

(***************************************************************************)
(* Characters.                                                             *)
(***************************************************************************)
NL == "\n"
\* The backtick and the string quote, which a TLA+ string cannot hold as such.
BT == "BACKTICK"
QT == "QUOTE"
\* The characters the dot of a JavaScript regular expression does NOT match.
LineTerminators == {NL, "\r"}
\* The characters \s matches (those the alphabet of the model can hold).
Whitespace == {" ", NL, "\r", "\t"}

Min(S) == CHOOSE x \in S : \A y \in S : x <= y
Max(S) == CHOOSE x \in S : \A y \in S : x >= y

\* String.prototype.slice(a, b) for 0 <= a, b <= length: empty when a >= b.
Slice(text, a, b) ==
    IF a >= b THEN << >> ELSE SubSeq(text, a + 1, b)

\* Whether the literal lit occurs in text at offset i.
HasAt(text, i, lit) ==
    /\ i + Len(lit) <= Len(text)
    /\ \A k \in 1..Len(lit) : text[i + k] = lit[k]

\* String.prototype.includes.
Includes(text, lit) ==
    \E i \in 0..Len(text) : HasAt(text, i, lit)

\* The offset after the longest run of \s characters starting at offset i.
RECURSIVE SkipWs(_, _)
SkipWs(text, i) ==
    IF i < Len(text) /\ text[i + 1] \in Whitespace THEN SkipWs(text, i + 1) ELSE i

(***************************************************************************)
(* The parsed source file.  ts.createSourceFile is an external parser; the *)
(* model generates syntax trees and renders them to the text the parser    *)
(* was given, so that node positions are those of the rendered text.       *)
(*                                                                         *)
(*   statement  ::= code | tag TEMPLATE ; | <style [jsx]>{ TEMPLATE }</style>;   *)
(*   TEMPLATE   ::= backtick part... backtick                              *)
(*   part       ::= literal text | ${ identifier } | ${ tag TEMPLATE }      *)
(***************************************************************************)
cssTag == <<"c", "s", "s">>
cssxTag == <<"c", "s", "s", "x">>
otherTag == <<"f">>
Tags == {cssTag, cssxTag, otherTag}

\* Statements without any template literal: a line break, and a string
\* literal whose content looks like a css tag.
CodeChunks ==
    { <<NL>>, <<QT, "c", "s", "s", BT, QT, ";">> }

\* Literal text of a template body.
TextChunks ==
    { <<"a", "b">>, <<"}">>, <<NL>>, <<"&", "&">>, <<"|", "|">> }

CodeNode(t) == [kind |-> "code", text |-> t]
TextPart(t) == [kind |-> "text", text |-> t]
IdentPart == [kind |-> "ident"]
NestedPart(tag, tpl) == [kind |-> "nested", tag |-> tag, tpl |-> tpl]
TaggedNode(tag, tpl) == [kind |-> "tagged", tag |-> tag, tpl |-> tpl]
JsxNode(attr, tpl) == [kind |-> "jsx", attr |-> attr, tpl |-> tpl]

RECURSIVE TemplatesOfCost(_)
RECURSIVE PartsOfCost(_)

\* Template parts of cost exactly k: a chunk or an identifier interpolation
\* costs 1, an interpolated tagged template costs 1 more than its template.
PartsOfCost(k) ==
    (IF k = 1 THEN {TextPart(t) : t \in TextChunks} \cup {IdentPart} ELSE {})
    \cup {NestedPart(cssTag, tpl) : tpl \in TemplatesOfCost(k - 1)}

TemplatesOfCost(n) ==
    IF n = 0 THEN { << >> }
    ELSE UNION { { <<p>> \o t : p \in PartsOfCost(k), t \in TemplatesOfCost(n - k) }
                 : k \in 1..n }

\* Statements of cost exactly k: a line break costs 1 and the string literal
\* 2; a template tagged css costs 1 more than its template, one with another
\* tag 2 more, a <style jsx> element 2 more and a <style> element 3 more.
NodesOfCost(k) ==
    (IF k = 1 THEN {CodeNode(<<NL>>)} ELSE {})
    \cup (IF k = 2 THEN {CodeNode(t) : t \in CodeChunks \ {<<NL>>}} ELSE {})
    \cup {TaggedNode(cssTag, tpl) : tpl \in TemplatesOfCost(k - 1)}
    \cup (IF k >= 2
          THEN {TaggedNode(tag, tpl) :
                    tag \in Tags \ {cssTag}, tpl \in TemplatesOfCost(k - 2)}
               \cup {JsxNode(TRUE, tpl) : tpl \in TemplatesOfCost(k - 2)}
          ELSE {})
    \cup (IF k >= 3 THEN {JsxNode(FALSE, tpl) : tpl \in TemplatesOfCost(k - 3)}
          ELSE {})

RECURSIVE DocsOfCost(_)
DocsOfCost(n) ==
    IF n = 0 THEN { << >> }
    ELSE UNION { { <<s>> \o d : s \in NodesOfCost(k), d \in DocsOfCost(n - k) }
                 : k \in 1..n }

\* Every generated source file: a sequence of statements within the budget.
Docs == UNION { DocsOfCost(n) : n \in 0..MaxSize }

(***************************************************************************)
(* Rendering: the text of a tree (TextDocument.getText()).                 *)
(***************************************************************************)
RECURSIVE RenderTemplate(_)
RECURSIVE RenderPart(_)

RenderPart(p) ==
    CASE p.kind = "text" -> p.text
      [] p.kind = "ident" -> <<"$", "{", "x", "}">>
      [] p.kind = "nested" ->
            <<"$", "{">> \o p.tag \o RenderTemplate(p.tpl) \o <<"}">>

\* A template literal with its two backticks.
RenderTemplate(tpl) ==
    LET RECURSIVE Body(_)
        Body(ps) == IF ps = << >> THEN << >>
                    ELSE RenderPart(Head(ps)) \o Body(Tail(ps))
    IN  <<BT>> \o Body(tpl) \o <<BT>>

JsxOpen(attr) ==
    IF attr THEN <<"<", "s", "t", "y", "l", "e", " ", "j", "s", "x", ">", "{">>
    ELSE <<"<", "s", "t", "y", "l", "e", ">", "{">>
JsxClose == <<"}", "<", "/", "s", "t", "y", "l", "e", ">", ";">>

RenderNode(s) ==
    CASE s.kind = "code" -> s.text
      [] s.kind = "tagged" -> s.tag \o RenderTemplate(s.tpl) \o <<";">>
      [] s.kind = "jsx" -> JsxOpen(s.attr) \o RenderTemplate(s.tpl) \o JsxClose

RECURSIVE getText(_)
getText(doc) ==
    IF doc = << >> THEN << >> ELSE RenderNode(Head(doc)) \o getText(Tail(doc))

(***************************************************************************)
(* Candidate-offset scanner.                                               *)
(***************************************************************************)
gWord == <<"g", "l", "o", "b", "a", "l">>

\* (global)?\s*? followed by the rest of the tag: the offset after the
\* optional word and the whitespace that follows it.
SkipGlobal(text, i) ==
    IF HasAt(text, i, gWord) THEN SkipWs(text, i + Len(gWord)) ELSE i

\* <\s*?style\s*?(global)?\s*?jsx\s*?(global)?\s*?> at offset i: the offset
\* after the match, or -1.
MatchStyleTag(text, i) ==
    LET a == SkipWs(text, i + 1)
        b == SkipGlobal(text, SkipWs(text, a + 5))
        c == SkipGlobal(text, SkipWs(text, b + 3))
    IN  IF /\ HasAt(text, i, <<"<">>)
           /\ HasAt(text, a, <<"s", "t", "y", "l", "e">>)
           /\ HasAt(text, b, <<"j", "s", "x">>)
           /\ HasAt(text, c, <<">">>)
        THEN c + 1 ELSE -1

\* \s*?word\s*?BACKTICK at offset i: the offset after the match, or -1.
MatchTagOpener(text, i, word) ==
    LET a == SkipWs(text, i)
        b == SkipWs(text, a + Len(word))
    IN  IF HasAt(text, a, word) /\ HasAt(text, b, <<BT>>) THEN b + 1 ELSE -1

\* The first alternative that matched, or the next one.
OrElse(a, b) == IF a # -1 THEN a ELSE b

\* styledJsxPattern matched at offset i: the alternatives in their order.
MatchStyledJsxPattern(text, i) ==
    OrElse(MatchStyleTag(text, i),
    OrElse(MatchTagOpener(text, i, cssTag),
    OrElse(MatchTagOpener(text, i, cssTag \o <<".">> \o gWord),
           MatchTagOpener(text, i,
               cssTag \o <<".", "r", "e", "s", "o", "l", "v", "e">>))))

\* lastIndex after an exec that found no match: the engine resets it.
ExecFailLastIndex(lastIndex) == 0

\* RegExp.prototype.exec of the global pattern: the search starts at lastIndex
\* and takes the leftmost match; a match moves lastIndex to its end, a failure
\* resets lastIndex.
RECURSIVE SearchFrom(_, _)
SearchFrom(text, i) ==
    IF i > Len(text) THEN -1
    ELSE OrElse(MatchStyledJsxPattern(text, i), SearchFrom(text, i + 1))

\* What exec reports for the end e of the match found, -1 for none.
ExecResult(e, lastIndex) ==
    IF e = -1
    THEN [found |-> FALSE, lastIndex |-> ExecFailLastIndex(lastIndex)]
    ELSE [found |-> TRUE, lastIndex |-> e]

styledJsxPatternExec(text, lastIndex) ==
    ExecResult(SearchFrom(text, lastIndex), lastIndex)

\* A scanner that runs the pattern once, an if in place of the while: the
\* cursor stays at the end of the first match.
ScanOnce(text, lastIndex, results) ==
    LET m == styledJsxPatternExec(text, lastIndex)
    IN  IF m.found
        THEN [results |-> Append(results, m.lastIndex), lastIndex |-> m.lastIndex]
        ELSE [results |-> results, lastIndex |-> m.lastIndex]

\* The while loop of getApproximateStyledJsxOffsets: its condition is the
\* exec, its body the push of the cursor.
RECURSIVE ScanLoop(_, _, _)
RECURSIVE WhileBody(_, _, _)
WhileBody(text, results, m) ==
    IF m.found
    THEN ScanLoop(text, m.lastIndex, Append(results, m.lastIndex))
    ELSE [results |-> results, lastIndex |-> m.lastIndex]

ScanLoop(text, lastIndex, results) ==
    CHOOSE r \in { WhileBody(text, results, m) :
                       m \in {styledJsxPatternExec(text, lastIndex)} } : TRUE

\* getApproximateStyledJsxOffsets, run with the cursor the shared pattern
\* holds when the call starts: the offsets and the cursor it leaves.
getApproximateStyledJsxOffsets(doc, lastIndex) ==
    CHOOSE r \in { ScanLoop(doc_, lastIndex, << >>) : doc_ \in {getText(doc)} } :
        TRUE

(***************************************************************************)
(* AST template locator.                                                   *)
(***************************************************************************)
\* The parent is a tagged template whose tag text includes "css".
isStyledJsxTaggedTemplate(node) ==
    /\ node.kind \in {"tagged", "nested"}
    /\ Includes(node.tag, cssTag)

\* The parent is the JSX expression of a <style> element with a jsx attribute.
isStyledJsxTemplate(node) ==
    /\ node.kind = "jsx"
    /\ node.attr

RECURSIVE WalkTemplate(_, _)
RECURSIVE WalkParts(_, _)

\* The callback of findStyledJsxTaggedTemplate on the template of node, whose
\* opening backtick is at offset pos (getStart), then the walk of its spans.
WalkTemplate(node, pos) ==
    LET own == IF isStyledJsxTaggedTemplate(node) \/ isStyledJsxTemplate(node)
               THEN << [start |-> pos + 1,
                        end |-> pos + Len(RenderTemplate(node.tpl)) - 1] >>
               ELSE << >>
    IN  own \o WalkParts(node.tpl, pos + 1)

WalkParts(ps, pos) ==
    IF ps = << >> THEN << >>
    ELSE LET p == Head(ps)
             here == IF p.kind = "nested"
                     THEN WalkTemplate(p, pos + 2 + Len(p.tag))
                     ELSE << >>
         IN  here \o WalkParts(Tail(ps), pos + Len(RenderPart(p)))

RECURSIVE walk(_, _)
walk(doc, pos) ==
    IF doc = << >> THEN << >>
    ELSE LET s == Head(doc)
             here == CASE s.kind = "code" -> << >>
                       [] s.kind = "tagged" -> WalkTemplate(s, pos + Len(s.tag))
                       [] s.kind = "jsx" ->
                             WalkTemplate(s, pos + Len(JsxOpen(s.attr)))
         IN  here \o walk(Tail(doc), pos + Len(RenderNode(s)))

findStyledJsxTaggedTemplate(doc) == walk(doc, 0)

(***************************************************************************)
(* Character-preserving masker.                                            *)
(***************************************************************************)
\* A masker that forgets to blank: the text is kept as it is.
BlankNothing(s) == s

\* s.replace(/./g, " "): every character but a line terminator becomes a space.
BlankAll(s) ==
    [i \in 1..Len(s) |-> IF s[i] \in LineTerminators THEN s[i] ELSE " "]

\* The sub-pattern with a dot that also matches line terminators: the match
\* runs to the last brace of the slice.
InterpolationEndDotAll(s, i) ==
    LET closers == {j \in (i + 2)..Len(s) : s[j] = "}"}
    IN  IF i + 1 <= Len(s) /\ s[i] = "$" /\ s[i + 1] = "{" /\ closers # {}
        THEN Max(closers) ELSE 0

\* The end (1-based index of the closing brace) of a match of \${.*} that
\* starts at index i of s, or 0: the last brace before the end of the line.
InterpolationEnd(s, i) ==
    LET stops == {j \in (i + 2)..Len(s) : s[j] \in LineTerminators}
        eol == IF stops = {} THEN Len(s) ELSE Min(stops) - 1
        closers == {j \in (i + 2)..eol : s[j] = "}"}
    IN  IF i + 1 <= Len(s) /\ s[i] = "$" /\ s[i + 1] = "{" /\ closers # {}
        THEN Max(closers) ELSE 0

\* A match of (&&|\|\|) at index i of s.
IsLogicalOperator(s, i) ==
    /\ i + 1 <= Len(s)
    /\ \/ s[i] = "&" /\ s[i + 1] = "&"
       \/ s[i] = "|" /\ s[i + 1] = "|"

\* The replacer callback (_str, p1) => p1.replace(/./g, " ") for a match of
\* the second alternative: p1 is undefined and the call throws a TypeError.
Threw == [threw |-> TRUE, text |-> << >>]
ReplacerOnOperator(s, i) == Threw

\* slice.replace(expressionPattern, replacer) from index i on.
RECURSIVE ReplaceExpressions(_, _)
ReplaceExpressions(s, i) ==
    IF i > Len(s) THEN [threw |-> FALSE, text |-> << >>]
    ELSE LET e == InterpolationEnd(s, i)
         IN  IF e # 0
             THEN LET rest == ReplaceExpressions(s, e + 1)
                  IN  [threw |-> rest.threw,
                       text |-> BlankAll(SubSeq(s, i, e)) \o rest.text]
             ELSE IF IsLogicalOperator(s, i)
             THEN LET rest == ReplaceExpressions(s, i + 2)
                      mine == ReplacerOnOperator(s, i)
                  IN  [threw |-> mine.threw \/ rest.threw,
                       text |-> mine.text \o rest.text]
             ELSE LET rest == ReplaceExpressions(s, i + 1)
                  IN  [threw |-> rest.threw, text |-> <<s[i]>> \o rest.text]

\* The loop body of the masker for range i: the masked CSS of the range and
\* the blanked gap up to the next range.
RECURSIVE MaskRanges(_, _, _)
MaskRanges(text, ranges, i) ==
    IF i > Len(ranges) THEN [threw |-> FALSE, text |-> << >>]
    ELSE LET css == ReplaceExpressions(
                        Slice(text, ranges[i].start, ranges[i].end), 1)
             gap == IF i + 1 <= Len(ranges)
                    THEN BlankAll(Slice(text, ranges[i].end, ranges[i + 1].start))
                    ELSE << >>
             rest == MaskRanges(text, ranges, i + 1)
         IN  [threw |-> css.threw \/ rest.threw,
              text |-> css.text \o gap \o rest.text]

Undefined == [kind |-> "undefined", text |-> << >>]
Exception == [kind |-> "throw", text |-> << >>]
StyledJsx(t) == [kind |-> "styledJsx", text |-> t]

\* replaceAllWithSpacesExceptCss on a non-empty range list: the synthetic CSS
\* document, or the exception the replacer throws.
replaceAllWithSpacesExceptCss(text, ranges) ==
    LET before == BlankAll(Slice(text, 0, ranges[1].start))
        body == MaskRanges(text, ranges, 1)
        after == BlankAll(Slice(text, ranges[Len(ranges)].end, Len(text)))
    IN  IF Len(ranges) = 0 THEN Exception   \* .start of the missing element
        ELSE IF body.threw THEN Exception
        ELSE StyledJsx(before \o body.text \o after)

\* getStyledJsx: the result and the cursor left in the shared pattern.
\* A guard that lets every document through to the locator.
AnyCandidates(scan) == TRUE

\* The guard of getStyledJsx on what the scanner found.
HasCandidates(scan) == Len(scan.results) > 0

\* A guard that lets every range list through to the masker.
AnyTemplates(templates) == TRUE

\* The guard of getStyledJsx on what the locator found.
HasTemplates(templates) == Len(templates) > 0

\* The range lists a function hands to the masker: the one list if its guard
\* holds, none otherwise.
Invocations(guard, templates) == IF guard THEN << templates >> ELSE << >>

\* The extraction for what the scanner and the locator found in text.
Extraction(text, scan, templates) ==
    [offsets |-> scan.results,
     lastIndex |-> scan.lastIndex,
     masker |-> Invocations(HasCandidates(scan) /\ HasTemplates(templates),
                            templates),
     result |-> IF HasCandidates(scan) /\ HasTemplates(templates)
                THEN replaceAllWithSpacesExceptCss(text, templates)
                ELSE Undefined]

getStyledJsx(doc, lastIndex) ==
    CHOOSE r \in { Extraction(getText(doc), styledJsxOffsets,
                              styledJsxTaggedTemplates) :
                       styledJsxOffsets \in
                           {getApproximateStyledJsxOffsets(doc, lastIndex)},
                       styledJsxTaggedTemplates \in
                           {findStyledJsxTaggedTemplate(doc)} } : TRUE

UnderCursorGuard(templates, cursorOffset) ==
    /\ Len(templates) > 0
    /\ templates[1].start < cursorOffset
    /\ templates[1].end > cursorOffset

ExtractionUnderCursor(text, templates, cursorOffset) ==
    IF UnderCursorGuard(templates, cursorOffset)
    THEN replaceAllWithSpacesExceptCss(text, templates)
    ELSE Undefined

getStyledJsxUnderCursor(doc, cursorOffset) ==
    ExtractionUnderCursor(getText(doc), findStyledJsxTaggedTemplate(doc),
                          cursorOffset)

\* The range lists getStyledJsxUnderCursor hands to the masker.
MaskerUnderCursor(templates, cursorOffset) ==
    Invocations(UnderCursorGuard(templates, cursorOffset), templates)

(***************************************************************************)
(* Feature dispatchers (styled-jsx-server-main.ts).  The CSS engine is an  *)
(* external collaborator: a response that comes from it is recorded as the *)
(* name of the engine operation that produced it.                          *)
(***************************************************************************)
Null == [kind |-> "null", by |-> ""]
UndefinedResponse == [kind |-> "undefined", by |-> ""]
EmptyArray == [kind |-> "emptyArray", by |-> ""]
ErrorResponse == [kind |-> "error", by |-> ""]
Engine(operation) == [kind |-> "engine", by |-> operation]

\* The handlers that extract with getStyledJsx: the engine operation each
\* delegates to and what each returns when there is no styled-jsx.
Features ==
    { [name |-> "onHover", engine |-> "doHover", empty |-> Null],
      [name |-> "onDocumentSymbol", engine |-> "findDocumentSymbols", empty |-> Null],
      [name |-> "onDefinition", engine |-> "findDefinition", empty |-> Null],
      [name |-> "onDocumentHighlight", engine |-> "findDocumentHighlights",
       empty |-> Null],
      [name |-> "onReferences", engine |-> "findReferences", empty |-> Null],
      [name |-> "onCodeAction", engine |-> "doCodeActions", empty |-> Null],
      [name |-> "onDocumentColor", engine |-> "findDocumentColors",
       empty |-> EmptyArray],
      [name |-> "onColorPresentation", engine |-> "getColorPresentations",
       empty |-> EmptyArray],
      [name |-> "onRenameRequest", engine |-> "doRename", empty |-> Null] }

\* What a handler answers for the result of its extraction.
Respond(styledJsx, engine, empty) ==
    CASE styledJsx.kind = "styledJsx" -> Engine(engine)
      [] styledJsx.kind = "undefined" -> empty
      [] styledJsx.kind = "throw" -> ErrorResponse

NoCall ==
    [op |-> "none", known |-> FALSE, cursor |-> -1, offsets |-> << >>,
     masker |-> << >>, result |-> Undefined, response |-> Null]
NoExtraction == [offsets |-> << >>, result |-> Undefined, set |-> FALSE]

VARIABLES
    document,     \* the syntax tree of the document the calls are about
    lastIndex,    \* styledJsxPattern.lastIndex, shared by all calls
    call,         \* the last call or handler that ran: its extraction, its response
    first,        \* the extraction of the first getStyledJsx on document
    calls,        \* how many getStyledJsx calls ran: on document, elsewhere
    initialized,            \* onInitialize has run
    scopedSettingsSupport,
    documents,              \* TextDocuments: URI -> the open document object, or 0
    contents,               \* document object -> the syntax tree of its text
    documentSettings,       \* URI -> the cached settings promise, or 0
    promises,               \* settings promise -> unused, pending, fulfilled, rejected
    waiting,                \* the then-callbacks registered on pending promises
    microtasks,             \* the then-callbacks of fulfilled promises, yet to run
    pendingValidationRequests,   \* URI -> the timer of the table, or 0
    timers,                 \* timer -> its state in the event loop and its document
    validations,            \* timer -> what became of the validation it started
    diagnostics             \* URI -> the diagnostics last published for it

extractVars == <<document, call, first, calls>>
serverVars ==
    <<initialized, scopedSettingsSupport, documents, contents, documentSettings,
      promises, waiting, microtasks, pendingValidationRequests, timers,
      validations, diagnostics>>
vars == <<extractVars, lastIndex, serverVars>>

(***************************************************************************)
(* The server: documents, settings, debounced validation, diagnostics.     *)
(***************************************************************************)
URIs == {"file:a", "file:b"}

\* The texts the documents of the server hold: one without styled-jsx, one
\* with a css template, one whose template holds a bare logical operator.
ServerDocs ==
    { << CodeNode(<<NL>>) >>,
      << TaggedNode(cssTag, << TextPart(<<"a", "b">>) >>) >>,
      << TaggedNode(cssTag, << TextPart(<<"&", "&">>) >>) >> }

Objects == 1..MaxOpens
Timers == 1..MaxTimers
Promises == 1..MaxPromises

NoTimer == [state |-> "unused", uri |-> "", obj |-> 0]

\* The ids not yet handed out.
FreshTimers == {t \in Timers : timers[t].state = "unused"}
FreshPromises == {q \in Promises : promises[q] = "unused"}
FreshObjects == {o \in Objects : contents[o] = << >>}

InitServer ==
    /\ initialized = FALSE
    /\ scopedSettingsSupport = FALSE
    /\ documents = [u \in URIs |-> 0]
    /\ contents = [o \in Objects |-> << >>]
    /\ documentSettings = [u \in URIs |-> 0]
    /\ promises = [q \in Promises |-> "unused"]
    /\ waiting = << >>
    /\ microtasks = << >>
    /\ pendingValidationRequests = [u \in URIs |-> 0]
    /\ timers = [t \in Timers |-> NoTimer]
    /\ validations = [t \in Timers |-> "none"]
    /\ diagnostics = [u \in URIs |-> "none"]

\* cleanPendingValidation: clearTimeout of the timer of the table, if any.
cleanPendingValidation(ts, pending, uri) ==
    IF pending[uri] # 0
    THEN [timers |-> [ts EXCEPT ![pending[uri]].state =
                          IF @ = "armed" THEN "cancelled" ELSE @],
          pending |-> [pending EXCEPT ![uri] = 0]]
    ELSE [timers |-> ts, pending |-> pending]

\* triggerValidation: cancel the pending timer of the URI, arm timer t for the
\* document object obj and put it in the table.
triggerValidation(ts, pending, uri, obj, t) ==
    LET c == cleanPendingValidation(ts, pending, uri)
    IN  [timers |-> [c.timers EXCEPT ![t] = [state |-> "armed", uri |-> uri,
                                            obj |-> obj]],
         pending |-> [c.pending EXCEPT ![uri] = t]]

\* connection.onInitialize.
Initialize(capability) ==
    /\ ~initialized
    /\ initialized' = TRUE
    /\ scopedSettingsSupport' = capability
    /\ UNCHANGED <<extractVars, lastIndex, documents, contents, documentSettings,
                   promises, waiting, microtasks, pendingValidationRequests,
                   timers, validations, diagnostics>>

Idle == initialized /\ microtasks = << >>

\* textDocument/didOpen: TextDocuments creates the document object and fires
\* onDidChangeContent.
DidOpen(uri, text) ==
    /\ Idle
    /\ documents[uri] = 0
    /\ FreshObjects # {} /\ FreshTimers # {}
    /\ LET obj == Min(FreshObjects)
           tv == triggerValidation(timers, pendingValidationRequests, uri, obj,
                                   Min(FreshTimers))
       IN  /\ documents' = [documents EXCEPT ![uri] = obj]
           /\ contents' = [contents EXCEPT ![obj] = text]
           /\ timers' = tv.timers
           /\ pendingValidationRequests' = tv.pending
    /\ UNCHANGED <<extractVars, lastIndex, initialized, scopedSettingsSupport,
                   documentSettings, promises, waiting, microtasks, validations,
                   diagnostics>>

\* textDocument/didChange: TextDocuments updates the document object in place
\* and fires onDidChangeContent.
DidChangeContent(uri, text) ==
    /\ Idle
    /\ documents[uri] # 0
    /\ FreshTimers # {}
    /\ LET obj == documents[uri]
           tv == triggerValidation(timers, pendingValidationRequests, uri, obj,
                                   Min(FreshTimers))
       IN  /\ contents' = [contents EXCEPT ![obj] = text]
           /\ timers' = tv.timers
           /\ pendingValidationRequests' = tv.pending
    /\ UNCHANGED <<extractVars, lastIndex, initialized, scopedSettingsSupport,
                   documents, documentSettings, promises, waiting, microtasks,
                   validations, diagnostics>>

\* textDocument/didClose: the three onDidClose handlers, in their order: the
\* stylesheet cache forgets the document, the cached settings are deleted,
\* clearDiagnostics.
DidClose(uri) ==
    /\ Idle
    /\ documents[uri] # 0
    /\ LET c == cleanPendingValidation(timers, pendingValidationRequests, uri)
       IN  /\ timers' = c.timers
           /\ pendingValidationRequests' = c.pending
    /\ documents' = [documents EXCEPT ![uri] = 0]
    /\ documentSettings' = [documentSettings EXCEPT ![uri] = 0]
    /\ diagnostics' = [diagnostics EXCEPT ![uri] = "empty"]
    /\ UNCHANGED <<extractVars, lastIndex, initialized, scopedSettingsSupport,
                   contents, promises, waiting, microtasks, validations>>

\* documents.all().forEach(triggerValidation), for the open URIs left in todo.
RECURSIVE TriggerAll(_, _, _)
TriggerAll(ts, pending, todo) ==
    IF todo = {} THEN [timers |-> ts, pending |-> pending]
    ELSE LET uri == CHOOSE u \in todo : TRUE
             t == Min({x \in Timers : ts[x].state = "unused"})
             tv == triggerValidation(ts, pending, uri, documents[uri], t)
         IN  TriggerAll(tv.timers, tv.pending, todo \ {uri})

\* connection.onDidChangeConfiguration: updateConfiguration.
DidChangeConfiguration ==
    /\ Idle
    /\ LET open == {u \in URIs : documents[u] # 0}
       IN  /\ Cardinality(FreshTimers) >= Cardinality(open)
           /\ LET tv == TriggerAll(timers, pendingValidationRequests, open)
              IN  /\ timers' = tv.timers
                  /\ pendingValidationRequests' = tv.pending
    /\ documentSettings' = [u \in URIs |-> 0]
    /\ UNCHANGED <<extractVars, lastIndex, initialized, scopedSettingsSupport,
                   documents, contents, promises, waiting, microtasks,
                   validations, diagnostics>>

Continuation(t) ==
    [timer |-> t, uri |-> timers[t].uri, obj |-> timers[t].obj, promise |-> 0]

\* What then() does with the callback on a promise in state st: it is kept
\* until the promise settles, queued if the promise is fulfilled, and never
\* called if the promise is rejected (no rejection handler is given).
OnRejected(validation) == "dropped"

\* The callback of setTimeout: the table entry is deleted and
\* validateTextDocument runs up to settingsPromise.then(...).
TimerFires(t) ==
    /\ Idle
    /\ timers[t].state = "armed"
    /\ timers' = [timers EXCEPT ![t].state = "fired"]
    /\ pendingValidationRequests' =
          [pendingValidationRequests EXCEPT ![timers[t].uri] = 0]
    /\ LET uri == timers[t].uri
           k == Continuation(t)
       IN  IF ~scopedSettingsSupport
           THEN \* Promise.resolve(void 0)
                /\ microtasks' = Append(microtasks, k)
                /\ validations' = [validations EXCEPT ![t] = "ready"]
                /\ UNCHANGED <<documentSettings, promises, waiting>>
           ELSE IF documentSettings[uri] = 0
           THEN \* a configuration request is sent and its promise cached
                /\ FreshPromises # {}
                /\ LET q == Min(FreshPromises)
                   IN  /\ promises' = [promises EXCEPT ![q] = "pending"]
                       /\ documentSettings' = [documentSettings EXCEPT ![uri] = q]
                       /\ waiting' = Append(waiting, [k EXCEPT !.promise = q])
                /\ validations' = [validations EXCEPT ![t] = "waiting"]
                /\ UNCHANGED microtasks
           ELSE LET q == documentSettings[uri]
                IN  /\ CASE promises[q] = "pending" ->
                              /\ waiting' = Append(waiting, [k EXCEPT !.promise = q])
                              /\ validations' = [validations EXCEPT ![t] = "waiting"]
                              /\ UNCHANGED microtasks
                         [] promises[q] = "fulfilled" ->
                              /\ microtasks' =
                                    Append(microtasks, [k EXCEPT !.promise = q])
                              /\ validations' = [validations EXCEPT ![t] = "ready"]
                              /\ UNCHANGED waiting
                         [] promises[q] = "rejected" ->
                              /\ validations' =
                                    [validations EXCEPT ![t] = OnRejected(@)]
                              /\ UNCHANGED <<waiting, microtasks>>
                    /\ UNCHANGED <<documentSettings, promises>>
    /\ UNCHANGED <<extractVars, lastIndex, initialized, scopedSettingsSupport,
                   documents, contents, diagnostics>>

\* The client answers the configuration request of promise q, or the request
\* fails: the callbacks registered on it are queued, or never called.
SettingsResponse(q, ok) ==
    /\ Idle
    /\ promises[q] = "pending"
    /\ promises' = [promises EXCEPT ![q] = IF ok THEN "fulfilled" ELSE "rejected"]
    /\ LET mine(k) == k.promise = q
           others(k) == k.promise # q
           ks == SelectSeq(waiting, mine)
       IN  /\ waiting' = SelectSeq(waiting, others)
           /\ microtasks' = IF ok THEN microtasks \o ks ELSE microtasks
           /\ validations' =
                 [t \in Timers |->
                     IF \E i \in 1..Len(ks) : ks[i].timer = t
                     THEN (IF ok THEN "ready" ELSE OnRejected(validations[t]))
                     ELSE validations[t]]
    /\ UNCHANGED <<extractVars, lastIndex, initialized, scopedSettingsSupport,
                   documents, contents, documentSettings,
                   pendingValidationRequests, timers, diagnostics>>

\* The callback of settingsPromise.then in validateTextDocument, for the
\* first queued continuation; found is what doValidation reports.
ValidationCallback(k, e, found) ==
           /\ lastIndex' = e.lastIndex
           /\ call' = [NoCall EXCEPT !.op = "validateTextDocument",
                                     !.offsets = e.offsets, !.masker = e.masker,
                                     !.result = e.result,
                                     !.response =
                                         Respond(e.result, "doValidation", EmptyArray)]
           /\ CASE e.result.kind = "styledJsx" ->
                     /\ diagnostics' = [diagnostics EXCEPT ![k.uri] = found]
                     /\ validations' = [validations EXCEPT ![k.timer] = "published"]
                     /\ UNCHANGED <<timers, pendingValidationRequests>>
                [] e.result.kind = "undefined" ->
                     \* clearDiagnostics
                     /\ LET c == cleanPendingValidation(
                                     timers, pendingValidationRequests, k.uri)
                        IN  /\ timers' = c.timers
                            /\ pendingValidationRequests' = c.pending
                     /\ diagnostics' = [diagnostics EXCEPT ![k.uri] = "empty"]
                     /\ validations' = [validations EXCEPT ![k.timer] = "cleared"]
                [] e.result.kind = "throw" ->
                     /\ found = "empty"
                     /\ validations' = [validations EXCEPT ![k.timer] = "threw"]
                     /\ UNCHANGED <<timers, pendingValidationRequests, diagnostics>>

RunValidation(found) ==
    /\ microtasks # << >>
    /\ \E e \in {getStyledJsx(contents[Head(microtasks).obj], lastIndex)} :
          ValidationCallback(Head(microtasks), e, found)
    /\ microtasks' = Tail(microtasks)
    /\ UNCHANGED <<document, first, calls, initialized, scopedSettingsSupport,
                   documents, contents, documentSettings, promises, waiting>>

Init ==
    /\ InitServer
    /\ document = << >>
    /\ lastIndex = 0
    /\ call = NoCall
    /\ first = NoExtraction
    /\ calls = [own |-> 0, other |-> 0]

Next ==
    \/ \E capability \in BOOLEAN : Initialize(capability)
    \/ \E uri \in URIs, text \in ServerDocs : DidOpen(uri, text)
    \/ \E uri \in URIs, text \in ServerDocs : DidChangeContent(uri, text)
    \/ \E uri \in URIs : DidClose(uri)
    \/ DidChangeConfiguration
    \/ \E t \in Timers : TimerFires(t)
    \/ \E q \in Promises, ok \in BOOLEAN : SettingsResponse(q, ok)
    \/ \E found \in {"empty", "errors"} : RunValidation(found)

Spec == Init /\ [][Next]_vars

(***************************************************************************)
(* SpecLive: the server with a client that answers every configuration     *)
(* request and documents the masker does not fail on; timers fire, the     *)
(* responses arrive and the queued callbacks run.                          *)
(***************************************************************************)
LiveDocs ==
    { << CodeNode(<<NL>>) >>,
      << TaggedNode(cssTag, << TextPart(<<"a", "b">>) >>) >> }

NextLive ==
    \/ \E capability \in BOOLEAN : Initialize(capability)
    \/ \E uri \in URIs, text \in LiveDocs : DidOpen(uri, text)
    \/ \E uri \in URIs, text \in LiveDocs : DidChangeContent(uri, text)
    \/ \E uri \in URIs : DidClose(uri)
    \/ DidChangeConfiguration
    \/ \E t \in Timers : TimerFires(t)
    \/ \E q \in Promises : SettingsResponse(q, TRUE)
    \/ \E found \in {"empty", "errors"} : RunValidation(found)

\* The event loop runs what is due: an armed timer fires after the delay, a
\* configuration request is answered, a queued callback runs.
Fairness ==
    /\ \A t \in Timers : WF_vars(TimerFires(t))
    /\ \A q \in Promises : WF_vars(SettingsResponse(q, TRUE))
    /\ WF_vars(\E found \in {"empty", "errors"} : RunValidation(found))

SpecLive == Init /\ [][NextLive]_vars /\ Fairness

\* Documents other calls are about, between two calls on document.
OtherDocs ==
    { << >>,
      << TaggedNode(cssTag, << TextPart(<<"a", "b">>) >>) >>,
      << CodeNode(<<NL>>), JsxNode(TRUE, << IdentPart >>) >> }

Cursors == 0..Len(getText(document))

Remember(e) ==
    IF first.set THEN first
    ELSE [offsets |-> e.offsets, result |-> e.result, set |-> TRUE]

(***************************************************************************)
(* SpecDispatch: one document of DispatchDocs is opened and validated      *)
(* while the client sends feature requests about its URI.                  *)
(***************************************************************************)
DispatchDocs == UNION { DocsOfCost(n) : n \in 0..MaxDispatchSize }
DispatchUri == "file:a"

\* connection.onCompletion, for a request at offset c of the document of uri.
CompletionResponse(c, r, m) ==
    call' = [NoCall EXCEPT !.op = "onCompletion", !.known = TRUE, !.cursor = c,
                           !.masker = m, !.result = r,
                           !.response = Respond(r, "doComplete", Null)]

OnCompletion(uri, c) ==
    /\ Idle
    /\ IF documents[uri] = 0
       THEN call' = [NoCall EXCEPT !.op = "onCompletion",
                                   !.response = UndefinedResponse]
       ELSE CompletionResponse(
                c, getStyledJsxUnderCursor(contents[documents[uri]], c),
                MaskerUnderCursor(
                    findStyledJsxTaggedTemplate(contents[documents[uri]]), c))
    /\ UNCHANGED <<document, first, calls, lastIndex, serverVars>>

\* The handlers of Features, for a request about the document of uri.
FeatureResponse(f, e) ==
    /\ call' = [NoCall EXCEPT !.op = f.name, !.known = TRUE,
                              !.offsets = e.offsets, !.masker = e.masker,
                              !.result = e.result,
                              !.response = Respond(e.result, f.engine, f.empty)]
    /\ lastIndex' = e.lastIndex

OnFeature(f, uri) ==
    /\ Idle
    /\ IF documents[uri] = 0
       THEN /\ call' = [NoCall EXCEPT !.op = f.name, !.response = f.empty]
            /\ UNCHANGED lastIndex
       ELSE FeatureResponse(f, getStyledJsx(contents[documents[uri]], lastIndex))
    /\ UNCHANGED <<document, first, calls, serverVars>>

InitDispatch ==
    /\ document \in DispatchDocs
    /\ lastIndex = 0
    /\ call = NoCall
    /\ first = NoExtraction
    /\ calls = [own |-> 0, other |-> 0]
    /\ InitServer

NextDispatch ==
    \/ \E capability \in BOOLEAN : Initialize(capability)
    \/ DidOpen(DispatchUri, document)
    \/ \E t \in Timers : TimerFires(t)
    \/ \E q \in Promises, ok \in BOOLEAN : SettingsResponse(q, ok)
    \/ \E found \in {"empty", "errors"} : RunValidation(found)
    \/ \E c \in Cursors : OnCompletion(DispatchUri, c)
    \/ \E f \in Features : OnFeature(f, DispatchUri)

SpecDispatch == InitDispatch /\ [][NextDispatch]_vars

(***************************************************************************)
(* SpecExtract: calls of getStyledJsx on one document of Docs, interleaved *)
(* with calls on other documents.                                          *)
(***************************************************************************)
Returned(e) ==
    /\ call' = [NoCall EXCEPT !.op = "getStyledJsx", !.offsets = e.offsets,
                              !.masker = e.masker, !.result = e.result]
    /\ lastIndex' = e.lastIndex
    /\ first' = Remember(e)

CallGetStyledJsx ==
    /\ calls.own < MaxCalls
    /\ calls' = [calls EXCEPT !.own = @ + 1]
    /\ Returned(getStyledJsx(document, lastIndex))
    /\ UNCHANGED <<document, serverVars>>

CallGetStyledJsxElsewhere(d) ==
    /\ calls.other < MaxCalls
    /\ calls' = [calls EXCEPT !.other = @ + 1]
    /\ lastIndex' = getStyledJsx(d, lastIndex).lastIndex
    /\ UNCHANGED <<document, call, first, serverVars>>

InitExtract ==
    /\ document \in Docs
    /\ lastIndex = 0
    /\ call = NoCall
    /\ first = NoExtraction
    /\ calls = [own |-> 0, other |-> 0]
    /\ InitServer

NextExtract ==
    \/ CallGetStyledJsx
    \/ \E d \in OtherDocs : CallGetStyledJsxElsewhere(d)

SpecExtract == InitExtract /\ [][NextExtract]_vars

(***************************************************************************)
(* SpecCursor: calls of getStyledJsxUnderCursor on one document of Docs.   *)
(***************************************************************************)
CallGetStyledJsxUnderCursor(c) ==
    /\ call' = [NoCall EXCEPT !.op = "getStyledJsxUnderCursor", !.cursor = c,
                              !.masker = MaskerUnderCursor(
                                  findStyledJsxTaggedTemplate(document), c),
                              !.result = getStyledJsxUnderCursor(document, c)]
    /\ UNCHANGED <<document, lastIndex, first, calls, serverVars>>

NextCursor == \E c \in Cursors : CallGetStyledJsxUnderCursor(c)

SpecCursor == InitExtract /\ [][NextCursor]_vars

(***************************************************************************)
(* Vocabulary of the claims about extraction.                              *)
(***************************************************************************)
Text == getText(document)
Ranges == findStyledJsxTaggedTemplate(document)
Positions == 0..(Len(Text) - 1)
CharAt(t, p) == t[p + 1]

Masked == call.result.kind = "styledJsx"
Mask == call.result.text

InRange(p, r) == r.start <= p /\ p < r.end
InSomeRange(p) == \E i \in 1..Len(Ranges) : InRange(p, Ranges[i])

\* Ascending and pairwise non-overlapping.
Ordered(ranges) ==
    /\ \A i \in 1..Len(ranges) : ranges[i].start <= ranges[i].end
    /\ \A i \in 1..(Len(ranges) - 1) : ranges[i].end <= ranges[i + 1].start

\* The offsets a syntactic interpolation ${...} of some template covers, from
\* the syntax tree: the offsets of the parts that are not literal text.
RECURSIVE InterpolatedInParts(_, _)
InterpolatedInParts(ps, pos) ==
    IF ps = << >> THEN {}
    ELSE LET p == Head(ps)
             n == Len(RenderPart(p))
             inner == IF p.kind = "nested"
                      THEN InterpolatedInParts(p.tpl, pos + 2 + Len(p.tag) + 1)
                      ELSE {}
         IN  (IF p.kind = "text" THEN {} ELSE pos..(pos + n - 1))
             \cup inner \cup InterpolatedInParts(Tail(ps), pos + n)

RECURSIVE InterpolatedIn(_, _)
InterpolatedIn(doc, pos) ==
    IF doc = << >> THEN {}
    ELSE LET s == Head(doc)
             here == CASE s.kind = "code" -> {}
                       [] s.kind = "tagged" ->
                             InterpolatedInParts(s.tpl, pos + Len(s.tag) + 1)
                       [] s.kind = "jsx" ->
                             InterpolatedInParts(s.tpl, pos + Len(JsxOpen(s.attr)) + 1)
         IN  here \cup InterpolatedIn(Tail(doc), pos + Len(RenderNode(s)))

Interpolated == InterpolatedIn(document, 0)

\* The offsets of the occurrences of && and || in the text.
IsOperatorAt(p) ==
    \/ HasAt(Text, p, <<"&", "&">>)
    \/ HasAt(Text, p, <<"|", "|">>)
InOperator(p) == IsOperatorAt(p) \/ (p > 0 /\ IsOperatorAt(p - 1))

\* p lies, within range r, between a ${ and a closing brace further along
\* the same line: the span the greedy sub-pattern \${.*} blanks.
InGreedySpan(p, r) ==
    \E i \in r.start..p : \E j \in p..(r.end - 1) :
        /\ HasAt(Text, i, <<"$", "{">>)
        /\ j >= i + 2
        /\ CharAt(Text, j) = "}"
        /\ \A k \in i..j : CharAt(Text, k) \notin LineTerminators

\* C1: whenever the masker builds a synthetic CSS document from the ranges the
\* locator returns for the document (ranges of nested template literals
\* included), its text is exactly as long as the text of the document.
C1_LengthPreserved ==
    Masked => Len(Mask) = Len(Text)

C3_BlankOutsideRanges ==
    (Masked /\ Ordered(Ranges)) =>
        \A p \in Positions : ~InSomeRange(p) => CharAt(Mask, p) \in Whitespace

\* A synthetic document was returned for a document that holds a line
\* terminator outside its ranges and other characters before, between and
\* after two ranges.
C3_Witness ==
    /\ Masked /\ Ordered(Ranges) /\ Len(Ranges) >= 2
    /\ \E p \in Positions : ~InSomeRange(p) /\ CharAt(Text, p) \in LineTerminators
    /\ \E p \in Positions :
          /\ Ranges[1].end <= p /\ p < Ranges[2].start
          /\ CharAt(Text, p) \notin Whitespace

\* C4: getStyledJsxUnderCursor passes its guard (returns a result) exactly
\* when some range of the document, whichever its place in the list, has
\* start < cursor < end.
C4_SomeRangeUnderCursor ==
    call.op = "getStyledJsxUnderCursor" =>
        ((call.result.kind # "undefined") <=>
            \E i \in 1..Len(Ranges) :
                Ranges[i].start < call.cursor /\ call.cursor < Ranges[i].end)

\* C5: whenever the masker is invoked, it returns the synthetic document, and
\* in it every offset of a range that the pattern matches, as an
\* interpolation span or as an occurrence of && or ||, holds a space.
C5_SubMatchesBlanked ==
    (call.op = "getStyledJsx" /\ Len(call.offsets) > 0 /\ Len(Ranges) > 0
        /\ Ordered(Ranges)) =>
        /\ Masked
        /\ \A p \in Positions : \A i \in 1..Len(Ranges) :
              (InRange(p, Ranges[i]) /\ (InGreedySpan(p, Ranges[i]) \/ InOperator(p)))
                  => CharAt(Mask, p) = " "

\* C10: every getStyledJsx call on the document returns the candidate offsets
\* and the synthetic CSS text its first call returned, and between calls the
\* match cursor of the shared pattern is 0.
C10_ExtractionIdempotent ==
    /\ lastIndex = 0
    /\ call.op = "getStyledJsx" =>
          /\ first.set
          /\ call.offsets = first.offsets
          /\ call.result = first.result

\* A second call on the document, after a call on another document, that
\* found two candidate offsets and returned a synthetic document.
C10_Witness ==
    /\ call.op = "getStyledJsx"
    /\ calls.own >= 2 /\ calls.other >= 1
    /\ Len(call.offsets) >= 2
    /\ Masked

(***************************************************************************)
(* Vocabulary of the claims about the server.                              *)
(***************************************************************************)
Closed(u) == documents[u] = 0
ArmedFor(u) == {t \in Timers : timers[t].state = "armed" /\ timers[t].uri = u}
Ran(t) == validations[t] \in {"published", "cleared", "threw"}

\* C6: in every interleaving of open, change, timer, settings-response and
\* close events, the diagnostics last published for a closed URI are the
\* empty list, its timer table entry is empty, no timer is armed for it and
\* no settings are cached for it.
C6_ClosedStaysClear ==
    \A u \in URIs :
        Closed(u) =>
            /\ diagnostics[u] \in {"none", "empty"}
            /\ pendingValidationRequests[u] = 0
            /\ ArmedFor(u) = {}
            /\ documentSettings[u] = 0

\* The timer table and the event loop agree: the armed timers of a URI are
\* the one timer the table holds for it.
TableHoldsTheArmedTimers ==
    \A u \in URIs :
        /\ Cardinality(ArmedFor(u)) <= 1
        /\ ArmedFor(u) =
              IF pendingValidationRequests[u] = 0 THEN {}
              ELSE {pendingValidationRequests[u]}

\* A cancelled timer never runs, and an armed timer goes away in one of three
\* ways: it fires and starts a validation, a later timer of its URI takes its
\* place, or its document is closed.
ArmedTimerFiresUnlessSuperseded ==
    \A t \in Timers :
        /\ timers[t].state = "cancelled" => timers'[t].state = "cancelled"
        /\ (timers[t].state = "armed" /\ timers'[t].state # "armed") =>
              \/ /\ timers'[t].state = "fired"
                 /\ validations'[t] # "none"
              \/ \E t2 \in Timers :
                    /\ t2 > t
                    /\ timers'[t2] = [timers[t] EXCEPT !.obj = timers'[t2].obj]
              \/ Closed(timers[t].uri)'

\* C7: the timer table holds at most one pending timer per URI, a change
\* cancels the pending timer of its URI for good and arms a new one, and the
\* timer of the last change of a burst is the one that starts the
\* validation: nothing but a later change or the close of the document
\* removes it before it fires.
C7_BurstValidatedOnce ==
    /\ []TableHoldsTheArmedTimers
    /\ [][ArmedTimerFiresUnlessSuperseded]_vars

\* C8: a validation whose settings request failed is not lost: no validation
\* that was started is left without its callback because the settings promise
\* it waits on, or the one cached for its URI, was rejected.
C8_RejectionDoesNotBlock ==
    \A t \in Timers : validations[t] # "dropped"

(***************************************************************************)
(* Vocabulary of the claims about the dispatchers.                         *)
(***************************************************************************)
NoCandidates == Len(getApproximateStyledJsxOffsets(document, 0).results) = 0

\* The empty result of each capability.
EmptyOf(op) ==
    IF op \in {"onDocumentColor", "onColorPresentation"} THEN EmptyArray ELSE Null

CursorInFirstRange ==
    /\ Len(Ranges) > 0
    /\ Ranges[1].start < call.cursor
    /\ call.cursor < Ranges[1].end

ValidationPublishedEmpty ==
    \A t \in Timers :
        Ran(t) => /\ validations[t] = "cleared"
                  /\ diagnostics[timers[t].uri] = "empty"

C11_RangesOrdered ==
    (call.op = "getStyledJsx" /\ Len(call.offsets) > 0) =>
        /\ \A i \in 1..Len(Ranges) : Ranges[i].start <= Ranges[i].end
        /\ \A i \in 1..(Len(Ranges) - 1) : Ranges[i].end <= Ranges[i + 1].start

\* C12: the masker is never invoked with an empty range list: every range
\* list that getStyledJsx or getStyledJsxUnderCursor handed to it, in a
\* direct call, a feature request or a validation, has at least one range.
C12_MaskerGetsRanges ==
    \A i \in 1..Len(call.masker) : Len(call.masker[i]) > 0

\* A validation handed the masker the one range list the locator found,
\* with two ranges in it.
C12_Witness ==
    /\ call.op = "validateTextDocument"
    /\ call.masker = << Ranges >>
    /\ Len(Ranges) >= 2
    /\ \E t \in Timers : validations[t] = "published"

(***************************************************************************)
(* Vocabulary of the claim about the liveness of validation.               *)
(***************************************************************************)
\* The validation timer t started ran and published: the diagnostics of the
\* engine, or the empty list.
Validated(t) == validations[t] \in {"published", "cleared"}

\* A later change of the same URI armed a timer after t.
Superseded(t) ==
    \E t2 \in Timers :
        /\ t2 > t
        /\ timers[t2].state # "unused"
        /\ timers[t2].uri = timers[t].uri

\* No configuration request is left to send.
RequestsUsedUp == FreshPromises = {}

\* After the last content change of a document that stays open, a
\* validation of it runs and publishes: the timer a change arms leads to
\* its validation, unless a later change arms another timer for the URI or
\* the document is closed.
LastChangeValidated ==
    \A t \in Timers :
        (timers[t].state = "armed") ~>
            \/ Validated(t)
            \/ Superseded(t)
            \/ \E u \in URIs : u = timers[t].uri /\ Closed(u)
            \/ RequestsUsedUp

\* The callback of a validation leaves the armed timers armed.
CallbackKeepsTimers ==
    (microtasks # << >> /\ microtasks' = Tail(microtasks)) =>
        \A t \in Timers : timers[t].state = "armed" => timers'[t].state = "armed"

\* C13: under fair firing of timers and delivery of settings responses,
\* after the last content change of a document that stays open a validation
\* of it eventually runs and publishes diagnostics; and the callback of an
\* earlier validation that finds no styled-jsx and clears the diagnostics
\* does not cancel the timer a newer change armed.
C13_ValidationEventuallyRuns ==
    /\ LastChangeValidated
    /\ [][CallbackKeepsTimers]_vars
=============================================================================
